---- MODULE Spec2Model ----
(***************************************************************************)
(* Model of the EDID base-block decoder of rust-edid (src/lib.rs).         *)
(*                                                                         *)
(* A byte is a number in 0..255, a slice is a sequence of bytes, a char is *)
(* its Unicode code point, a String is a sequence of code points.  Every   *)
(* nom parser is an operator from the input slice to a result record       *)
(*   [ok |-> TRUE,  rest |-> remaining slice, val |-> value, kind |-> ""]  *)
(*   [ok |-> FALSE, rest |-> <<>>, val |-> <<>>, kind |-> nom ErrorKind]   *)
(* parse_edid is the state machine: one action per statement of its body.  *)
(***************************************************************************)
EXTENDS Integers, Sequences, FiniteSets, TLC

VARIABLES data, pc, input, header, display, descriptors, result

vars == <<data, pc, input, header, display, descriptors, result>>

\* ------------------------------------------------------------------------
\* Bounds of the model
\* ------------------------------------------------------------------------

\* Largest number of extension-block bytes that follow the 128-byte base block.
MaxExtra == 2

\* ------------------------------------------------------------------------
\* Integer and slice primitives
\* ------------------------------------------------------------------------

Byte == 0..255

RECURSIVE Pow2(_)
Pow2(n) == IF n = 0 THEN 1 ELSE 2 * Pow2(n - 1)

\* x >> n on an unsigned integer
Shr(x, n) == x \div Pow2(n)

\* (x << n) on an unsigned integer of width w
Shl(x, n, w) == (x * Pow2(n)) % Pow2(w)

\* x as u8
AsU8(x) == x % 256

RECURSIVE BitAnd(_, _)
BitAnd(a, b) ==
    IF a = 0 \/ b = 0 THEN 0
    ELSE (IF a % 2 = 1 /\ b % 2 = 1 THEN 1 ELSE 0) + 2 * BitAnd(a \div 2, b \div 2)

RECURSIVE BitOr(_, _)
BitOr(a, b) ==
    IF a = 0 THEN b
    ELSE IF b = 0 THEN a
    ELSE (IF a % 2 = 1 \/ b % 2 = 1 THEN 1 ELSE 0) + 2 * BitOr(a \div 2, b \div 2)

Drop(n, s) == SubSeq(s, n + 1, Len(s))

Ok(rest, val) == [ok |-> TRUE, rest |-> rest, val |-> val, kind |-> ""]

Err(kind) == [ok |-> FALSE, rest |-> <<>>, val |-> <<>>, kind |-> kind]

\* ------------------------------------------------------------------------
\* nom primitives used by the decoder
\* ------------------------------------------------------------------------

\* nom::bytes::complete::take
take(n, i) == IF Len(i) >= n THEN Ok(Drop(n, i), SubSeq(i, 1, n)) ELSE Err("Eof")

\* nom::bytes::complete::tag
tag(t, i) ==
    IF Len(i) >= Len(t) /\ SubSeq(i, 1, Len(t)) = t THEN Ok(Drop(Len(t), i), t)
    ELSE Err("Tag")

le_u8(i) == IF Len(i) >= 1 THEN Ok(Drop(1, i), i[1]) ELSE Err("Eof")

le_u16(i) == IF Len(i) >= 2 THEN Ok(Drop(2, i), i[1] + 256 * i[2]) ELSE Err("Eof")

be_u16(i) == IF Len(i) >= 2 THEN Ok(Drop(2, i), 256 * i[1] + i[2]) ELSE Err("Eof")

\* A u32 is kept as its two 16-bit halves, [hi, lo] standing for
\* 65536 * hi + lo: the integers of the model checker end at 2^31 - 1.
U32(hi, lo) == [hi |-> hi, lo |-> lo]

le_u32(i) ==
    IF Len(i) >= 4
    THEN Ok(Drop(4, i), U32(i[3] + 256 * i[4], i[1] + 256 * i[2]))
    ELSE Err("Eof")

\* nom::combinator::peek: the value of the parser, the input left where it was
peek_le_u16(i) == LET r == le_u16(i) IN IF r.ok THEN Ok(i, r.val) ELSE r

\* n successive le_u8 reads (tuple((le_u8, ...)) / count(le_u8, n)): the
\* values in order, or the error of the first read that runs out of bytes
RECURSIVE le_u8_seq(_, _)
le_u8_seq(n, i) ==
    IF n = 0 THEN Ok(i, <<>>)
    ELSE LET r == le_u8(i) IN
         IF ~r.ok THEN r
         ELSE LET t == le_u8_seq(n - 1, r.rest) IN
              IF ~t.ok THEN t ELSE Ok(t.rest, <<r.val>> \o t.val)

\* ------------------------------------------------------------------------
\* Header
\* ------------------------------------------------------------------------

Magic == <<0, 255, 255, 255, 255, 255, 255, 0>>

\* a mask of six bits instead of five
parse_vendor_wide_mask(v) ==
    LET mask == 63
        i0 == 65 - 1
    IN << AsU8(BitAnd(AsU8(Shr(v, 10)), mask) + i0),
          AsU8(BitAnd(AsU8(Shr(v, 5)), mask) + i0),
          AsU8(BitAnd(AsU8(v), mask) + i0) >>

\* the three fields in the opposite order
parse_vendor_reversed(v) ==
    LET mask == 31
        i0 == 65 - 1
    IN << AsU8(BitAnd(AsU8(v), mask) + i0),
          AsU8(BitAnd(AsU8(Shr(v, 5)), mask) + i0),
          AsU8(BitAnd(AsU8(Shr(v, 10)), mask) + i0) >>

parse_vendor(v) ==
    LET mask == 31
        i0 == 65 - 1
    IN << AsU8(BitAnd(AsU8(Shr(v, 10)), mask) + i0),
          AsU8(BitAnd(AsU8(Shr(v, 5)), mask) + i0),
          AsU8(BitAnd(AsU8(v), mask) + i0) >>

\* a comparison that stops one byte early
parse_magic_short(i) ==
    IF Len(i) >= 8 /\ SubSeq(i, 1, 7) = SubSeq(Magic, 1, 7) THEN Ok(Drop(8, i), Magic)
    ELSE Err("Tag")

parse_magic(i) == tag(Magic, i)

parse_header(i) ==
    LET r1 == parse_magic(i)
        r2 == be_u16(r1.rest)
        r3 == le_u16(r2.rest)
        r4 == le_u32(r3.rest)
        r5 == le_u8(r4.rest)
        r6 == le_u8(r5.rest)
        r7 == le_u8(r6.rest)
        r8 == le_u8(r7.rest)
    IN IF ~r1.ok THEN r1
       ELSE IF ~r2.ok THEN r2
       ELSE IF ~r3.ok THEN r3
       ELSE IF ~r4.ok THEN r4
       ELSE IF ~r5.ok THEN r5
       ELSE IF ~r6.ok THEN r6
       ELSE IF ~r7.ok THEN r7
       ELSE IF ~r8.ok THEN r8
       ELSE Ok(r8.rest, [vendor   |-> parse_vendor(r2.val),
                         product  |-> r3.val,
                         serial   |-> r4.val,
                         week     |-> r5.val,
                         year     |-> r6.val,
                         version  |-> r7.val,
                         revision |-> r8.val])

\* ------------------------------------------------------------------------
\* Display parameters and the three skipped regions
\* ------------------------------------------------------------------------

parse_display(i) ==
    LET r == le_u8_seq(5, i) IN
    IF ~r.ok THEN r
    ELSE Ok(r.rest, [video_input |-> r.val[1],
                     width       |-> r.val[2],
                     height      |-> r.val[3],
                     gamma       |-> r.val[4],
                     features    |-> r.val[5]])

parse_chromaticity(i) ==
    LET r == take(10, i) IN IF r.ok THEN Ok(r.rest, <<>>) ELSE r

parse_established_timing(i) ==
    LET r == take(3, i) IN IF r.ok THEN Ok(r.rest, <<>>) ELSE r

\* the length its comment states
parse_standard_timing_ten(i) ==
    LET r == take(10, i) IN IF r.ok THEN Ok(r.rest, <<>>) ELSE r

parse_standard_timing(i) ==
    LET r == take(16, i) IN IF r.ok THEN Ok(r.rest, <<>>) ELSE r


\* ------------------------------------------------------------------------
\* Monitor descriptor text
\* ------------------------------------------------------------------------

\* Upper half of code page 437 as Unicode code points
Cp437High ==
    << 199, 252, 233, 226, 228, 224, 229, 231,
       234, 235, 232, 239, 238, 236, 196, 197,
       201, 230, 198, 244, 246, 242, 251, 249,
       255, 214, 220, 162, 163, 165, 8359, 402,
       225, 237, 243, 250, 241, 209, 170, 186,
       191, 8976, 172, 189, 188, 161, 171, 187,
       9617, 9618, 9619, 9474, 9508, 9569, 9570, 9558,
       9557, 9571, 9553, 9559, 9565, 9564, 9563, 9488,
       9492, 9524, 9516, 9500, 9472, 9532, 9566, 9567,
       9562, 9556, 9577, 9574, 9568, 9552, 9580, 9575,
       9576, 9572, 9573, 9561, 9560, 9554, 9555, 9579,
       9578, 9496, 9484, 9608, 9604, 9612, 9616, 9600,
       945, 223, 915, 960, 931, 963, 181, 964,
       934, 920, 937, 948, 8734, 966, 949, 8745,
       8801, 177, 8805, 8804, 8992, 8993, 247, 8776,
       176, 8729, 183, 8730, 8319, 178, 9632, 160 >>

\* cp437::forward: the 256-entry byte -> char table
cp437_forward(b) == IF b < 128 THEN b ELSE Cp437High[b - 127]

\* char::is_whitespace (Unicode White_Space), what str::trim removes
IsWhitespace(c) ==
    \/ c \in 9..13
    \/ c \in {32, 133, 160, 5760, 8232, 8233, 8239, 8287, 12288}
    \/ c \in 8192..8202

RECURSIVE TrimStart(_)
TrimStart(s) ==
    IF s # <<>> /\ IsWhitespace(s[1]) THEN TrimStart(Drop(1, s)) ELSE s

RECURSIVE TrimEnd(_)
TrimEnd(s) ==
    IF s # <<>> /\ IsWhitespace(s[Len(s)]) THEN TrimEnd(SubSeq(s, 1, Len(s) - 1)) ELSE s

Trim(s) == TrimEnd(TrimStart(s))

\* b.iter().filter(|&&c| c != 0x0A).map(|&b| cp437::forward(b)).collect()
RECURSIVE FilterMap(_)
FilterMap(b) ==
    IF b = <<>> THEN <<>>
    ELSE (IF b[1] # 10 THEN <<cp437_forward(b[1])>> ELSE <<>>) \o FilterMap(Drop(1, b))

parse_descriptor_text(i) ==
    LET r == take(13, i) IN
    IF ~r.ok THEN r ELSE Ok(r.rest, Trim(FilterMap(r.val)))

\* ------------------------------------------------------------------------
\* Detailed timing
\* ------------------------------------------------------------------------

\* the horizontal active high bits taken from the low nibble
parse_detailed_timing_swapped(i) ==
    LET r0 == le_u16(i)
        rs == le_u8_seq(16, r0.rest)
        pixel_clock_10khz         == r0.val
        horizontal_active_lo      == rs.val[1]
        horizontal_blanking_lo    == rs.val[2]
        horizontal_px_hi          == rs.val[3]
        vertical_active_lo        == rs.val[4]
        vertical_blanking_lo      == rs.val[5]
        vertical_px_hi            == rs.val[6]
        horizontal_front_porch_lo == rs.val[7]
        horizontal_sync_width_lo  == rs.val[8]
        vertical_lo               == rs.val[9]
        porch_sync_hi             == rs.val[10]
        horizontal_size_lo        == rs.val[11]
        vertical_size_lo          == rs.val[12]
        size_hi                   == rs.val[13]
        horizontal_border         == rs.val[14]
        vertical_border           == rs.val[15]
        features                  == rs.val[16]
    IN IF ~r0.ok THEN r0
       ELSE IF ~rs.ok THEN rs
       ELSE Ok(rs.rest,
          [pixel_clock                |-> pixel_clock_10khz * 10,
           horizontal_active_pixels   |->
               BitOr(horizontal_active_lo, Shl(BitAnd(horizontal_px_hi, 15), 8, 16)),
           horizontal_blanking_pixels |->
               BitOr(horizontal_blanking_lo, Shl(BitAnd(horizontal_px_hi, 15), 8, 16)),
           vertical_active_lines      |->
               BitOr(vertical_active_lo, Shl(Shr(vertical_px_hi, 4), 8, 16)),
           vertical_blanking_lines    |->
               BitOr(vertical_blanking_lo, Shl(BitAnd(vertical_px_hi, 15), 8, 16)),
           horizontal_front_porch     |->
               BitOr(horizontal_front_porch_lo, Shl(Shr(porch_sync_hi, 6), 8, 16)),
           horizontal_sync_width      |->
               BitOr(horizontal_sync_width_lo,
                     Shl(BitAnd(Shr(porch_sync_hi, 4), 3), 8, 16)),
           vertical_front_porch       |->
               BitOr(Shr(vertical_lo, 4), Shl(BitAnd(Shr(porch_sync_hi, 2), 3), 8, 16)),
           vertical_sync_width        |->
               BitOr(BitAnd(vertical_lo, 15), Shl(BitAnd(porch_sync_hi, 3), 8, 16)),
           horizontal_size            |->
               BitOr(horizontal_size_lo, Shl(Shr(size_hi, 4), 8, 16)),
           vertical_size              |->
               BitOr(vertical_size_lo, Shl(BitAnd(size_hi, 15), 8, 16)),
           horizontal_border_pixels   |-> horizontal_border,
           vertical_border_pixels     |-> vertical_border,
           features                   |-> features])

parse_detailed_timing(i) ==
    LET r0 == le_u16(i)
        rs == le_u8_seq(16, r0.rest)
        pixel_clock_10khz         == r0.val
        horizontal_active_lo      == rs.val[1]
        horizontal_blanking_lo    == rs.val[2]
        horizontal_px_hi          == rs.val[3]
        vertical_active_lo        == rs.val[4]
        vertical_blanking_lo      == rs.val[5]
        vertical_px_hi            == rs.val[6]
        horizontal_front_porch_lo == rs.val[7]
        horizontal_sync_width_lo  == rs.val[8]
        vertical_lo               == rs.val[9]
        porch_sync_hi             == rs.val[10]
        horizontal_size_lo        == rs.val[11]
        vertical_size_lo          == rs.val[12]
        size_hi                   == rs.val[13]
        horizontal_border         == rs.val[14]
        vertical_border           == rs.val[15]
        features                  == rs.val[16]
    IN IF ~r0.ok THEN r0
       ELSE IF ~rs.ok THEN rs
       ELSE Ok(rs.rest,
          [pixel_clock                |-> pixel_clock_10khz * 10,
           horizontal_active_pixels   |->
               BitOr(horizontal_active_lo, Shl(Shr(horizontal_px_hi, 4), 8, 16)),
           horizontal_blanking_pixels |->
               BitOr(horizontal_blanking_lo, Shl(BitAnd(horizontal_px_hi, 15), 8, 16)),
           vertical_active_lines      |->
               BitOr(vertical_active_lo, Shl(Shr(vertical_px_hi, 4), 8, 16)),
           vertical_blanking_lines    |->
               BitOr(vertical_blanking_lo, Shl(BitAnd(vertical_px_hi, 15), 8, 16)),
           horizontal_front_porch     |->
               BitOr(horizontal_front_porch_lo, Shl(Shr(porch_sync_hi, 6), 8, 16)),
           horizontal_sync_width      |->
               BitOr(horizontal_sync_width_lo,
                     Shl(BitAnd(Shr(porch_sync_hi, 4), 3), 8, 16)),
           vertical_front_porch       |->
               BitOr(Shr(vertical_lo, 4), Shl(BitAnd(Shr(porch_sync_hi, 2), 3), 8, 16)),
           vertical_sync_width        |->
               BitOr(BitAnd(vertical_lo, 15), Shl(BitAnd(porch_sync_hi, 3), 8, 16)),
           horizontal_size            |->
               BitOr(horizontal_size_lo, Shl(Shr(size_hi, 4), 8, 16)),
           vertical_size              |->
               BitOr(vertical_size_lo, Shl(BitAnd(size_hi, 15), 8, 16)),
           horizontal_border_pixels   |-> horizontal_border,
           vertical_border_pixels     |-> vertical_border,
           features                   |-> features])

\* ------------------------------------------------------------------------
\* Descriptor slot
\* ------------------------------------------------------------------------

DetailedTiming(t) == [variant |-> "DetailedTiming", timing |-> t]

TextDescriptor(v, s) == [variant |-> v, text |-> s]

Placeholder(v) == [variant |-> v]

Unknown(d) == [variant |-> "Unknown", data |-> d]

TextVariants == {"SerialNumber", "UnspecifiedText", "ProductName"}

\* the product name tried before the serial number
DescriptorAlternativesNameFirst ==
    << "ProductName", "UnspecifiedText", "RangeLimits", "SerialNumber", "WhitePoint",
       "StandardTiming", "ColorManagement", "TimingCodes", "EstablishedTimings",
       "Dummy", "Unknown" >>

\* The sub-decoders of alt((...)), in the order they are tried
DescriptorAlternatives ==
    << "SerialNumber", "UnspecifiedText", "RangeLimits", "ProductName", "WhitePoint",
       "StandardTiming", "ColorManagement", "TimingCodes", "EstablishedTimings",
       "Dummy", "Unknown" >>

\* One entry of the list: preceded(le_u8, ...) mapped to its variant
Alternative(v, i) ==
    LET p == le_u8(i) IN
    IF ~p.ok THEN p
    ELSE IF v \in TextVariants
         THEN LET r == parse_descriptor_text(p.rest) IN
              IF ~r.ok THEN r ELSE Ok(r.rest, TextDescriptor(v, r.val))
    ELSE IF v = "Unknown"
         THEN LET r == le_u8_seq(13, p.rest) IN
              IF ~r.ok THEN r ELSE Ok(r.rest, Unknown(r.val))
    ELSE LET r == take(13, p.rest) IN
         IF ~r.ok THEN r ELSE Ok(r.rest, Placeholder(v))

\* nom::branch::alt: the first entry that succeeds, an error when none does
RECURSIVE alt(_, _)
alt(k, i) ==
    IF k > Len(DescriptorAlternatives) THEN Err("Alt")
    ELSE LET r == Alternative(DescriptorAlternatives[k], i) IN
         IF r.ok THEN r ELSE alt(k + 1, i)

\* two reserved bytes instead of three
skip_reserved_two(i) == take(2, i)

\* take(3_usize) at the start of a monitor descriptor
skip_reserved(i) == take(3, i)

descriptor_type(i) == peek_le_u16(i)

parse_descriptor(i) ==
    LET pk == descriptor_type(i) IN
    IF ~pk.ok THEN pk
    ELSE IF pk.val = 0
         THEN LET s == skip_reserved(pk.rest)
                  t == le_u8(s.rest)
              IN IF ~s.ok THEN s
                 ELSE IF ~t.ok THEN t
                 ELSE alt(1, t.rest)
    ELSE LET r == parse_detailed_timing(pk.rest) IN
         IF ~r.ok THEN r ELSE Ok(r.rest, DetailedTiming(r.val))

\* nom::multi::count(parse_descriptor, n)
RECURSIVE count_parse_descriptor(_, _)
count_parse_descriptor(n, i) ==
    IF n = 0 THEN Ok(i, <<>>)
    ELSE LET r == parse_descriptor(i) IN
         IF ~r.ok THEN r
         ELSE LET t == count_parse_descriptor(n - 1, r.rest) IN
              IF ~t.ok THEN t ELSE Ok(t.rest, <<r.val>> \o t.val)

\* ------------------------------------------------------------------------
\* parse_edid / parse as a state machine
\* ------------------------------------------------------------------------

\* Option<T>: <<>> is None, <<v>> is Some(v)
None == <<>>

Some(v) == <<v>>

NoResult == [tag |-> "None"]

\* Err(e) of the IResult, e carrying the nom ErrorKind
ErrResult(kind) == [tag |-> "Err", kind |-> kind]

\* the panic of Result::unwrap on an Err
Panic == [tag |-> "Panic"]

\* Ok((input, EDID { .. }))
OkResult(rest, h, d, ds) ==
    [tag |-> "Ok", rest |-> rest,
     edid |-> [header |-> h, display |-> d, chromaticity |-> <<>>,
               established_timing |-> <<>>, standard_timing |-> <<>>,
               descriptors |-> ds]]

\* the `?` operator on an Err: the function returns it, its locals are dropped
Return(r) ==
    /\ pc' = "done"
    /\ result' = r
    /\ input' = <<>>
    /\ header' = None
    /\ display' = None
    /\ descriptors' = None
    /\ UNCHANGED data

ParseHeader ==
    /\ pc = "header"
    /\ LET r == parse_header(input) IN
       IF r.ok
       THEN /\ input' = r.rest
            /\ header' = Some(r.val)
            /\ pc' = "display"
            /\ UNCHANGED <<data, display, descriptors, result>>
       ELSE Return(ErrResult(r.kind))

ParseDisplay ==
    /\ pc = "display"
    /\ LET r == parse_display(input) IN
       IF r.ok
       THEN /\ input' = r.rest
            /\ display' = Some(r.val)
            /\ pc' = "chromaticity"
            /\ UNCHANGED <<data, header, descriptors, result>>
       ELSE Return(ErrResult(r.kind))

ParseChromaticity ==
    /\ pc = "chromaticity"
    /\ LET r == parse_chromaticity(input) IN
       IF r.ok
       THEN /\ input' = r.rest
            /\ pc' = "established_timing"
            /\ UNCHANGED <<data, header, display, descriptors, result>>
       ELSE Return(ErrResult(r.kind))

ParseEstablishedTiming ==
    /\ pc = "established_timing"
    /\ LET r == parse_established_timing(input) IN
       IF r.ok
       THEN /\ input' = r.rest
            /\ pc' = "standard_timing"
            /\ UNCHANGED <<data, header, display, descriptors, result>>
       ELSE Return(ErrResult(r.kind))

ParseStandardTiming ==
    /\ pc = "standard_timing"
    /\ LET r == parse_standard_timing(input) IN
       IF r.ok
       THEN /\ input' = r.rest
            /\ pc' = "descriptors"
            /\ UNCHANGED <<data, header, display, descriptors, result>>
       ELSE Return(ErrResult(r.kind))

\* count(parse_descriptor, 4)(input).unwrap()
ParseDescriptors ==
    /\ pc = "descriptors"
    /\ LET r == count_parse_descriptor(4, input) IN
       IF r.ok
       THEN /\ input' = r.rest
            /\ descriptors' = Some(r.val)
            /\ pc' = "extensions"
            /\ UNCHANGED <<data, header, display, result>>
       ELSE Return(Panic)

TakeExtensions ==
    /\ pc = "extensions"
    /\ LET r == take(1, input) IN
       IF r.ok
       THEN /\ input' = r.rest
            /\ pc' = "checksum"
            /\ UNCHANGED <<data, header, display, descriptors, result>>
       ELSE Return(ErrResult(r.kind))

\* the checksum byte, then the Ok((input, EDID { .. })) that ends the function
TakeChecksum ==
    /\ pc = "checksum"
    /\ LET r == take(1, input) IN
       IF r.ok
       THEN Return(OkResult(r.rest, header[1], display[1], descriptors[1]))
       ELSE Return(ErrResult(r.kind))

Next ==
    \/ ParseHeader
    \/ ParseDisplay
    \/ ParseChromaticity
    \/ ParseEstablishedTiming
    \/ ParseStandardTiming
    \/ ParseDescriptors
    \/ TakeExtensions
    \/ TakeChecksum

\* ------------------------------------------------------------------------
\* Inputs
\* ------------------------------------------------------------------------

\* Bytes 8..19 of the card0-VGA-1 fixture: SAM, product 596, serial 1146106418,
\* week 27, year 17, version 1.3
FixtureHeader == <<76, 45, 84, 2, 50, 50, 80, 68, 27, 17, 1, 3>>

\* Bytes 20..24 of the fixture
FixtureDisplay == <<14, 47, 30, 120, 42>>

\* Bytes 25..53: chromaticity, established timings, standard timings
Skipped == [k \in 1..29 |-> (k * 37) % 256]

\* The four slots of the card0-VGA-1 fixture and three slots of card0-eDP-1.
\* The fixture files are not part of the source; the bytes are rebuilt from the
\* values their tests expect, with the sub-tag bytes of the EDID format in byte
\* 3 (FD range limits, FC product name, FF serial number, FE text, 10 dummy).
TimingSlot == <<33, 57, 144, 48, 98, 26, 39, 64, 104, 176, 54, 0, 218, 40, 17, 0, 0, 28>>

RangeSlot == <<0, 0, 0, 253, 0, 56, 75, 30, 81, 14, 0, 10, 32, 32, 32, 32, 32, 32>>

NameSlot ==
    <<0, 0, 0, 252, 0, 83, 121, 110, 99, 77, 97, 115, 116, 101, 114, 10, 32, 32>>

SerialSlot ==
    <<0, 0, 0, 255, 0, 72, 83, 51, 80, 55, 48, 49, 49, 48, 53, 10, 32, 32>>

TextSlot ==
    <<0, 0, 0, 254, 0, 68, 74, 67, 80, 54, 128, 76, 81, 49, 51, 51, 77, 49>>

DummySlot == <<0, 0, 0, 16, 0, 0, 0, 0, 0, 0, 0, 0, 0, 0, 0, 0, 0, 0>>

UnknownSlot == <<0, 0, 0, 0, 0, 2, 65, 3, 40, 0, 18, 0, 0, 11, 1, 10, 32, 32>>

SlotSamples ==
    {TimingSlot, RangeSlot, NameSlot, SerialSlot, TextSlot, DummySlot, UnknownSlot}

\* The fixed tag, and the tag damaged in its first, a middle and its last byte
MagicSamples ==
    { Magic,
      <<1, 255, 255, 255, 255, 255, 255, 0>>,
      <<0, 255, 255, 254, 255, 255, 255, 0>>,
      <<0, 255, 255, 255, 255, 255, 255, 1>> }

\* Bytes of extension blocks that follow the base block
Extra == [k \in 1..MaxExtra |-> (k * 85 + 1) % 256]

Block(magic, hdr, slots) ==
    magic \o hdr \o FixtureDisplay \o Skipped
          \o slots[1] \o slots[2] \o slots[3] \o slots[4] \o <<1, 99>>

Replace(s, k, v) == [s EXCEPT ![k] = v]

Start(d) ==
    /\ data = d
    /\ input = d
    /\ pc = "header"
    /\ header = None
    /\ display = None
    /\ descriptors = None
    /\ result = NoResult

\* Inputs of every length up to 128 + MaxExtra: each tag sample with slots that
\* are timings or serial numbers, and the intact tag with every choice of slots
\* once the base block is complete
Init ==
    \E magic \in MagicSamples, slots \in [1..4 -> SlotSamples], n \in 0..(128 + MaxExtra) :
        /\ \/ \A k \in 1..4 : slots[k] \in {TimingSlot, SerialSlot}
           \/ magic = Magic /\ n >= 128
        /\ Start(SubSeq(Block(magic, FixtureHeader, slots) \o Extra, 1, n))

Spec == Init /\ [][Next]_vars

\* The card0-VGA-1 fixture as its test describes it
FixtureSlots == <<TimingSlot, RangeSlot, NameSlot, SerialSlot>>

Fixture == Block(Magic, FixtureHeader, FixtureSlots)

\* An 18-byte slot filled with one byte value
Filled(v) == [k \in 1..18 |-> v]

SlotBases == {TimingSlot, NameSlot, Filled(255)}

\* Complete base blocks whose second slot is a base slot with one byte set to
\* any value
InitSlot ==
    \E base \in SlotBases, k \in 1..18, v \in Byte :
        Start(Block(Magic, FixtureHeader,
                    [FixtureSlots EXCEPT ![2] = Replace(base, k, v)]))

SpecSlot == InitSlot /\ [][Next]_vars

HeaderBases ==
    {FixtureHeader} \cup {[k \in 1..12 |-> v] : v \in {0, 85, 170, 255}}

\* Complete base blocks whose header bytes 8..19 are a base with one byte set
\* to any value
InitHeader ==
    \E base \in HeaderBases, k \in 1..12, v \in Byte :
        Start(Block(Magic, Replace(base, k, v), FixtureSlots))

SpecHeader == InitHeader /\ [][Next]_vars

\* ------------------------------------------------------------------------
\* Properties
\* ------------------------------------------------------------------------

Returned == pc = "done" /\ result.tag = "Ok"

HasMagic == Len(data) >= 8 /\ SubSeq(data, 1, 8) = Magic

\* the byte of the input at offset k, counted from 0
At(k) == data[k + 1]

\* the 18 input bytes of descriptor slot k = 1..4
Slot(k) == SubSeq(data, 54 + 18 * (k - 1) + 1, 54 + 18 * k)

\* the input offset at which each statement of parse_edid starts
Offset(p) ==
    CASE p = "header" -> 0
      [] p = "display" -> 20
      [] p = "chromaticity" -> 25
      [] p = "established_timing" -> 35
      [] p = "standard_timing" -> 38
      [] p = "descriptors" -> 54
      [] p = "extensions" -> 126
      [] p = "checksum" -> 127

C2_ShortInputIsError ==
    pc = "done" =>
        /\ result.tag \in {"Ok", "Err"}
        /\ Len(data) < 128 => result.tag = "Err"

\* C3: an input whose first 8 bytes are not the fixed tag (an input shorter
\* than 8 bytes included) ends in an error; the tag check is the first step, so
\* no header, display or descriptor is ever decoded from it.
C3_BadMagicIsError ==
    ~HasMagic =>
        /\ pc \in {"header", "done"}
        /\ header = None /\ display = None /\ descriptors = None
        /\ pc = "done" => result.tag = "Err"

C3_Witness ==
    /\ pc = "done"
    /\ result.tag = "Err"
    /\ Len(data) >= 128
    /\ SubSeq(data, 1, 7) = SubSeq(Magic, 1, 7)
    /\ ~HasMagic

\* the text a monitor descriptor holds: slot bytes 5..17 without the newlines,
\* translated and trimmed
SlotText(s) == Trim(FilterMap(SubSeq(s, 6, 18)))

TimingOf(s) ==
    [pixel_clock                |-> (s[1] + 256 * s[2]) * 10,
     horizontal_active_pixels   |-> s[3] + 256 * (s[5] \div 16),
     horizontal_blanking_pixels |-> s[4] + 256 * (s[5] % 16),
     vertical_active_lines      |-> s[6] + 256 * (s[8] \div 16),
     vertical_blanking_lines    |-> s[7] + 256 * (s[8] % 16),
     horizontal_front_porch     |-> s[9] + 256 * (s[12] \div 64),
     horizontal_sync_width      |-> s[10] + 256 * ((s[12] \div 16) % 4),
     horizontal_size            |-> s[13] + 256 * (s[15] \div 16),
     vertical_size              |-> s[14] + 256 * (s[15] % 16),
     horizontal_border_pixels   |-> s[16],
     vertical_border_pixels     |-> s[17],
     features                   |-> s[18]]

TimingFields == DOMAIN TimingOf(TimingSlot)

\* C5: every field of a returned detailed timing but the two vertical porch and
\* sync fields is the stated combination of the bytes of its slot, the pixel
\* clock is at most 655350, and the fixture's block decodes to 146250 kHz,
\* 1680x1050, 560x39, 104/176, 474x296 mm, borders 0, features 28.
C5_TimingFields ==
    Returned =>
        \A k \in 1..4 :
            LET s == Slot(k)
                d == result.edid.descriptors[k]
            IN (s[1] # 0 \/ s[2] # 0) =>
                  /\ d.variant = "DetailedTiming"
                  /\ \A f \in TimingFields : d.timing[f] = TimingOf(s)[f]
                  /\ d.timing.pixel_clock <= 655350
                  /\ s = TimingSlot =>
                        /\ d.timing.pixel_clock = 146250
                        /\ d.timing.horizontal_active_pixels = 1680
                        /\ d.timing.vertical_active_lines = 1050
                        /\ d.timing.horizontal_blanking_pixels = 560
                        /\ d.timing.vertical_blanking_lines = 39
                        /\ d.timing.horizontal_front_porch = 104
                        /\ d.timing.horizontal_sync_width = 176
                        /\ d.timing.horizontal_size = 474
                        /\ d.timing.vertical_size = 296
                        /\ d.timing.horizontal_border_pixels = 0
                        /\ d.timing.vertical_border_pixels = 0
                        /\ d.timing.features = 28

\* a timing whose shared high byte of the horizontal pixels has two different
\* non-zero nibbles
C5_Witness ==
    /\ Returned
    /\ Slot(2)[5] \div 16 # Slot(2)[5] % 16
    /\ Slot(2)[5] \div 16 # 0 /\ Slot(2)[5] % 16 # 0
    /\ result.edid.descriptors[2].variant = "DetailedTiming"
    /\ result.edid.descriptors[2].timing.horizontal_active_pixels > 255

\* the three 5-bit fields of the vendor value 256 * b8 + b9
VendorField(j) ==
    LET v == 256 * At(8) + At(9) IN
    CASE j = 1 -> (v \div 1024) % 32
      [] j = 2 -> (v \div 32) % 32
      [] j = 3 -> v % 32

\* C6 as stated: each character of the vendor of a returned record is an
\* uppercase letter 'A'..'Z'.
C6_VendorIsUppercase ==
    Returned => \A j \in 1..3 : result.edid.header.vendor[j] \in 65..90

\* C6 as amended: each character of the vendor of a returned record is one of
\* the 32 characters '@'..'_' (64..95), and it is an uppercase letter exactly
\* when its 5-bit field is in 1..26.
C6_VendorRange ==
    Returned =>
        \A j \in 1..3 :
            /\ result.edid.header.vendor[j] \in 64..95
            /\ result.edid.header.vendor[j] \in 65..90 <=> VendorField(j) \in 1..26

\* a vendor with a field of 0 and a field above 26
C6_Witness ==
    /\ Returned
    /\ result.edid.header.vendor[1] = 64
    /\ result.edid.header.vendor[3] > 90

\* C7: the header of a returned record, from the input bytes 8..19: the vendor
\* characters are 64 plus the 5-bit fields of the big-endian 256 * b8 + b9 (bit
\* 15 ignored), product and serial are little-endian, week, year, version and
\* revision are the next four bytes; 0x4C 0x2D is 'S','A','M'.
C7_HeaderFields ==
    Returned =>
        LET h == result.edid.header IN
        /\ \A j \in 1..3 : h.vendor[j] = 64 + VendorField(j)
        /\ h.product = At(10) + 256 * At(11)
        /\ h.serial.lo = At(12) + 256 * At(13)
        /\ h.serial.hi = At(14) + 256 * At(15)
        /\ h.week = At(16)
        /\ h.year = At(17)
        /\ h.version = At(18)
        /\ h.revision = At(19)
        /\ (At(8) = 76 /\ At(9) = 45) => h.vendor = <<83, 65, 77>>

C7_Witness ==
    /\ Returned
    /\ At(8) = 76 /\ At(9) = 45
    /\ result.edid.header.vendor = <<83, 65, 77>>
    /\ result.edid.header.serial.hi >= 32768

\* C8: the variant of a returned monitor descriptor follows the content of its
\* slot: the card0-VGA-1 fixture decodes to DetailedTiming, RangeLimits,
\* ProductName("SyncMaster"), SerialNumber("HS3P701105").
C8_FixtureDescriptors ==
    (pc = "done" /\ data = Fixture) =>
        /\ result.tag = "Ok"
        /\ result.edid.descriptors[1].variant = "DetailedTiming"
        /\ result.edid.descriptors[2] = Placeholder("RangeLimits")
        /\ result.edid.descriptors[3] =
              TextDescriptor("ProductName", <<83, 121, 110, 99, 77, 97, 115, 116, 101, 114>>)
        /\ result.edid.descriptors[4] =
              TextDescriptor("SerialNumber", <<72, 83, 51, 80, 55, 48, 49, 49, 48, 53>>)

\* C9: a returned record has exactly four descriptors, descriptor k is what
\* the 18 bytes of slot k decode to on their own, a slot is consumed whole, and
\* the two trailing bytes start at offset 126 whatever the slots hold.
C9_SlotsAreIndependent ==
    /\ pc = "extensions" => input = Drop(126, data)
    /\ Returned =>
          /\ Len(result.edid.descriptors) = 4
          /\ \A k \in 1..4 :
                LET r == parse_descriptor(Slot(k)) IN
                /\ r.ok
                /\ r.rest = <<>>
                /\ result.edid.descriptors[k] = r.val

\* a record that holds a monitor descriptor before a detailed timing
C9_Witness ==
    /\ Returned
    /\ result.edid.descriptors[1].variant = "SerialNumber"
    /\ result.edid.descriptors[2].variant = "DetailedTiming"
    /\ result.edid.descriptors[3].variant = "SerialNumber"
    /\ Slot(3)[4] = 16

\* C10: the vertical front porch and the vertical sync width of a returned
\* detailed timing are 6-bit values, the 2-bit extension of b11 placed directly
\* above the 4-bit part of b10.
C10_VerticalPorchSync ==
    Returned =>
        \A k \in 1..4 :
            LET s == Slot(k)
                d == result.edid.descriptors[k]
            IN (s[1] # 0 \/ s[2] # 0) =>
                  /\ d.timing.vertical_front_porch =
                        (s[11] \div 16) + 16 * ((s[12] \div 4) % 4)
                  /\ d.timing.vertical_sync_width = (s[11] % 16) + 16 * (s[12] % 4)
                  /\ d.timing.vertical_front_porch \in 0..63
                  /\ d.timing.vertical_sync_width \in 0..63

====
